---- MODULE Spec2Model ----
(***************************************************************************)
(* The receive / reply / acknowledgement pipeline of the ics20-swap        *)
(* contract (contracts/ics20-swap/src/ibc.rs).                             *)
(*                                                                         *)
(* The contract storage is the record [balance, reply_args, lockup].  A    *)
(* handler is an operator from (storage, input) to a result record          *)
(*   [ok, st, err, resp]                                                   *)
(* where st is the storage as the handler's writes left it at the point it *)
(* returned.  An entry point that returns Err to the host has its writes   *)
(* discarded by the host; an entry point that returns Ok has them kept.    *)
(***************************************************************************)
EXTENDS Integers, Sequences, FiniteSets, TLC

\* ------------------------------------------------------------------ bounds
MaxAmount == 1
MaxBalance == 2

\* --------------------------------------------------------- program constants
ICS20_VERSION == "ics20-1"
RECEIVE_ID == 1337
SWAP_ID == 52023
JOIN_POOL_ID == 44372
EXIT_POOL_ID == 64097
ACK_FAILURE_ID == 64023
LOCKUP_ID == 57110
LOCK_TOKEN_ID == 48194
CLAIM_TOKEN_ID == 5716
UNLOCK_TOKEN_ID == 28433

KnownReplyIds ==
  {RECEIVE_ID, SWAP_ID, JOIN_POOL_ID, EXIT_POOL_ID, ACK_FAILURE_ID,
   LOCKUP_ID, LOCK_TOKEN_ID, CLAIM_TOKEN_ID, UNLOCK_TOKEN_ID}

\* ------------------------------------------------------------ input domains
\* A denomination string is the sequence of its '/'-separated segments:
\* "transfer/channel-1234/gamm/pool/1" is
\* <<"transfer", "channel-1234", "gamm", "pool", "1">>.
Channels == {"channel-9", "channel-7"}
Senders == {"remote-sender"}
Receivers == {"local-rcpt"}
Addrs == {"lockup-addr", "lockup-addr-2"}
CONTRACT_ADDR == "cosmos2contract"
UATOM == <<"uatom">>
POOL_SHARE == <<"gamm", "pool", "1">>
LocalDenoms == {UATOM, POOL_SHARE}
Amounts == 0..MaxAmount
RemoteEndpoint == [port_id |-> "transfer", channel_id |-> "channel-1234"]

VoucherDenoms ==
  {<<"transfer", "channel-1234">> \o d : d \in LocalDenoms}
    \cup {UATOM,
          <<"transfer", "channel-1234">>,
          <<"other-port", "channel-1234", "uatom">>,
          <<"transfer", "channel-0", "uatom">>,
          <<"other-port", "channel-0", "uatom">>}

ActionKinds ==
  {"None", "Swap", "JoinPool", "ExitPool", "LockupAccount", "Lock", "Claim", "Unlock"}

Garbage == [decodable |-> FALSE]

\* Packets whose voucher names this channel's counterpart come with every
\* amount and action; the others fail in the voucher parser whatever they
\* carry, so one amount and two actions stand for them.
GoodVouchers == {<<"transfer", "channel-1234">> \o d : d \in LocalDenoms}

Ics20Packets ==
  [decodable : {TRUE}, amount : Amounts, denom : GoodVouchers,
   sender : Senders, receiver : Receivers, action : ActionKinds]
    \cup [decodable : {TRUE}, amount : {1}, denom : VoucherDenoms \ GoodVouchers,
          sender : Senders, receiver : Receivers, action : {"None", "Swap"}]

IbcPackets ==
  [data : Ics20Packets \cup {Garbage}, src : {RemoteEndpoint},
   dest : [channel_id : Channels]]

\* ------------------------------------------------------------------ storage
NoReplyArgs == [present |-> FALSE]
NoAddr == "no-lockup"
LedgerKeys == Channels \X LocalDenoms
LockupKeys == Channels \X Senders

\* CHANNEL_INFO: no record for a channel id until it connects
NoChannel == [present |-> FALSE]

EmptyStore ==
  [balance |-> [k \in LedgerKeys |-> 0],
   reply_args |-> NoReplyArgs,
   lockup |-> [k \in LockupKeys |-> NoAddr],
   channel_info |-> [c \in Channels |-> NoChannel]]

ReplyArgs(channel, denom, amount, sender) ==
  [present |-> TRUE, channel |-> channel, denom |-> denom,
   amount |-> amount, sender |-> sender]

\* ------------------------------------------------------------------ results
NoResp == [none |-> TRUE]
Ok(st, resp) == [ok |-> TRUE, st |-> st, err |-> "", resp |-> resp]
Err(st, err) == [ok |-> FALSE, st |-> st, err |-> err, resp |-> NoResp]

\* ------------------------------------------------------- acknowledgement codec
MarkerBody == [t |-> "marker"]
ack_success_with_body(data) == [kind |-> "Result", body |-> data, msg |-> ""]
ack_success == [kind |-> "Result", body |-> MarkerBody, msg |-> ""]
ack_fail(err) == [kind |-> "Error", body |-> [t |-> "none"], msg |-> err]
NoData == [kind |-> "None", body |-> [t |-> "none"], msg |-> ""]

\* ------------------------------------------------- channel balance ledger
\* state.rs is not part of the sources; these follow section 4.3 / 4.4.
reduce_channel_balance(st, channel, denom, amount) ==
  IF st.balance[<<channel, denom>>] < amount
    THEN Err(st, "InsufficientFunds")
    ELSE Ok([st EXCEPT !.balance[<<channel, denom>>] = @ - amount], NoResp)

increase_channel_balance(st, channel, denom, amount) ==
  Ok([st EXCEPT !.balance[<<channel, denom>>] = @ + amount], NoResp)

restore_balance_reply(st) ==
  IF ~st.reply_args.present
    THEN Err(st, "NotFound")
    ELSE increase_channel_balance(st, st.reply_args.channel,
                                  st.reply_args.denom, st.reply_args.amount)

\* ------------------------------------------------------------ voucher parser
\* str::splitn(3, '/'): at most three parts, the last one keeps the rest.
splitn3(s) ==
  IF Len(s) <= 3
    THEN [i \in 1..Len(s) |-> <<s[i]>>]
    ELSE << <<s[1]>>, <<s[2]>>, SubSeq(s, 3, Len(s)) >>

\* parse_voucher comparing the channel before the port
parse_voucher_channel_first(voucher_denom, remote_endpoint) ==
  LET split_denom == splitn3(voucher_denom) IN
  IF Len(split_denom) # 3 THEN [ok |-> FALSE, err |-> "NoForeignTokens", denom |-> <<>>]
  ELSE IF split_denom[2] # <<remote_endpoint.channel_id>>
    THEN [ok |-> FALSE, err |-> "FromOtherChannel", denom |-> <<>>]
  ELSE IF split_denom[1] # <<remote_endpoint.port_id>>
    THEN [ok |-> FALSE, err |-> "FromOtherPort", denom |-> <<>>]
  ELSE [ok |-> TRUE, err |-> "", denom |-> split_denom[3]]

\* parse_voucher splitting with str::split: every '/' separates
parse_voucher_split(voucher_denom, remote_endpoint) ==
  LET split_denom == [i \in 1..Len(voucher_denom) |-> <<voucher_denom[i]>>] IN
  IF Len(split_denom) # 3 THEN [ok |-> FALSE, err |-> "NoForeignTokens", denom |-> <<>>]
  ELSE IF split_denom[1] # <<remote_endpoint.port_id>>
    THEN [ok |-> FALSE, err |-> "FromOtherPort", denom |-> <<>>]
  ELSE IF split_denom[2] # <<remote_endpoint.channel_id>>
    THEN [ok |-> FALSE, err |-> "FromOtherChannel", denom |-> <<>>]
  ELSE [ok |-> TRUE, err |-> "", denom |-> split_denom[3]]

parse_voucher(voucher_denom, remote_endpoint) ==
  LET split_denom == splitn3(voucher_denom) IN
  IF Len(split_denom) # 3 THEN [ok |-> FALSE, err |-> "NoForeignTokens", denom |-> <<>>]
  ELSE IF split_denom[1] # <<remote_endpoint.port_id>>
    THEN [ok |-> FALSE, err |-> "FromOtherPort", denom |-> <<>>]
  ELSE IF split_denom[2] # <<remote_endpoint.channel_id>>
    THEN [ok |-> FALSE, err |-> "FromOtherChannel", denom |-> <<>>]
  ELSE [ok |-> TRUE, err |-> "", denom |-> split_denom[3]]

\* parse.rs is not part of the sources; a pool-share denomination is
\* "gamm/pool/<id>" (section 4.5, ExitPool).
parse_pool_id(denom) ==
  IF Len(denom) = 3 /\ denom[1] = "gamm" /\ denom[2] = "pool"
    THEN [ok |-> TRUE, err |-> ""]
    ELSE [ok |-> FALSE, err |-> "InvalidPoolDenom"]

\* ------------------------------------------------------- nested-call requests
SubMsg(msg, id, reply_on) == [id |-> id, reply_on |-> reply_on, msg |-> msg]
reply_always(msg, id) == SubMsg(msg, id, "always")
reply_on_error(msg, id) == SubMsg(msg, id, "error")
NoSubMsg == [id |-> 0, reply_on |-> "none", msg |-> [type |-> "none"]]

Amount_from_parts(denom, amount) == [denom |-> denom, amount |-> amount]

send_amount(amount, recipient) ==
  [type |-> "bank_send", to_address |-> recipient,
   denom |-> amount.denom, amount |-> amount.amount]

create_lockup_msg(contract_addr, msg, funds) ==
  [type |-> "wasm_execute", contract_addr |-> contract_addr,
   msg |-> msg, funds |-> funds]

ReceiveResponse(ack, messages, action) ==
  [ack |-> ack, data |-> NoData, messages |-> messages,
   attrs |-> [action |-> action, success |-> "true", error |-> ""]]

ReceiveErrorResponse(err) ==
  [ack |-> ack_fail(err), data |-> NoData, messages |-> <<>>,
   attrs |-> [action |-> "receive", success |-> "false", error |-> err]]

Done(resp) == [ok |-> TRUE, err |-> "", resp |-> resp]
Failed(err) == [ok |-> FALSE, err |-> err, resp |-> NoResp]
WithStore(st, r) == [ok |-> r.ok, st |-> st, err |-> r.err, resp |-> r.resp]

\* ---------------------------------------------------------- action dispatcher
\* nonpayable accepting every amount
nonpayable_unchecked(amount) ==
  Done(NoResp)

nonpayable(amount) ==
  IF amount.amount = 0 THEN Done(NoResp) ELSE Failed("NonPayable")

swap_receive(sender, token_in, contract) ==
  LET tx == [type |-> "stargate", url |-> "MsgSwapExactAmountIn",
             sender |-> contract, token_in |-> token_in]
      submsg == reply_always(tx, SWAP_ID)
  IN Done(ReceiveResponse(ack_success, <<submsg>>, "receive_swap"))

receive_join_pool(sender, token_in, contract) ==
  LET tx == [type |-> "stargate", url |-> "MsgJoinSwapExternAmountIn",
             sender |-> contract, token_in |-> token_in]
      submsg == reply_always(tx, JOIN_POOL_ID)
  IN Done(ReceiveResponse(ack_success, <<submsg>>, "receive_join_pool"))

receive_exit_pool(sender, token_in, contract) ==
  LET pool_id == parse_pool_id(token_in.denom) IN
  IF ~pool_id.ok THEN Failed(pool_id.err)
  ELSE
    LET tx == [type |-> "stargate", url |-> "MsgExitSwapShareAmountIn",
               sender |-> contract, token_in |-> token_in]
        submsg == reply_always(tx, EXIT_POOL_ID)
    IN Done(ReceiveResponse(ack_success, <<submsg>>, "receive_exit_pool"))

\* receive_create_lockup without the LOCKUP.has check
receive_create_lockup_unchecked(st, channel, sender, contract) ==
  LET init_msg == [type |-> "wasm_instantiate", admin |-> contract]
      submsg == reply_always(init_msg, LOCKUP_ID)
  IN Done(ReceiveResponse(ack_success, <<submsg>>, "receive_lockup_account"))

receive_create_lockup(st, channel, sender, contract) ==
  IF st.lockup[<<channel, sender>>] # NoAddr THEN Failed("OnlyLockupByChannel")
  ELSE
    LET init_msg == [type |-> "wasm_instantiate", admin |-> contract]
        submsg == reply_always(init_msg, LOCKUP_ID)
    IN Done(ReceiveResponse(ack_success, <<submsg>>, "receive_lockup_account"))

\* receive_lock_tokens going on with an empty address when no binding is found
receive_lock_tokens_unwrap_or_default(st, channel, sender, token_in) ==
  LET exec_msg == create_lockup_msg(st.lockup[<<channel, sender>>], "Lock", <<token_in>>)
      submsg == reply_always(exec_msg, LOCK_TOKEN_ID)
  IN Done(ReceiveResponse(ack_success, <<submsg>>, "receive_lock_tokens"))

receive_lock_tokens(st, channel, sender, token_in) ==
  IF st.lockup[<<channel, sender>>] = NoAddr THEN Failed("LockupNotFound")
  ELSE
    LET exec_msg == create_lockup_msg(st.lockup[<<channel, sender>>], "Lock", <<token_in>>)
        submsg == reply_always(exec_msg, LOCK_TOKEN_ID)
    IN Done(ReceiveResponse(ack_success, <<submsg>>, "receive_lock_tokens"))

receive_claim_tokens(st, channel, sender) ==
  IF st.lockup[<<channel, sender>>] = NoAddr THEN Failed("LockupNotFound")
  ELSE
    LET exec_msg == create_lockup_msg(st.lockup[<<channel, sender>>], "Claim", <<>>)
        submsg == reply_always(exec_msg, CLAIM_TOKEN_ID)
    IN Done(ReceiveResponse(ack_success, <<submsg>>, "receive_claim_tokens"))

\* receive_unlock_tokens without add_submessage
receive_unlock_tokens_no_submsg(st, channel, sender) ==
  IF st.lockup[<<channel, sender>>] = NoAddr THEN Failed("LockupNotFound")
  ELSE Done(ReceiveResponse(ack_success, <<>>, "receive_unlock"))

\* receive_unlock_tokens asking for the reply on success as well
receive_unlock_tokens_reply_always(st, channel, sender) ==
  IF st.lockup[<<channel, sender>>] = NoAddr THEN Failed("LockupNotFound")
  ELSE
    LET exec_msg == create_lockup_msg(st.lockup[<<channel, sender>>], "Unlock", <<>>)
        submsg == reply_always(exec_msg, UNLOCK_TOKEN_ID)
    IN Done(ReceiveResponse(ack_success, <<submsg>>, "receive_unlock"))

receive_unlock_tokens(st, channel, sender) ==
  IF st.lockup[<<channel, sender>>] = NoAddr THEN Failed("LockupNotFound")
  ELSE
    LET exec_msg == create_lockup_msg(st.lockup[<<channel, sender>>], "Unlock", <<>>)
        submsg == reply_on_error(exec_msg, UNLOCK_TOKEN_ID)
    IN Done(ReceiveResponse(ack_success, <<submsg>>, "receive_unlock"))

\* the `match action` of do_ibc_packet_receive
receive_action(st, channel, msg, to_send, contract) ==
  CASE msg.action = "Swap" -> swap_receive(msg.sender, to_send, contract)
    [] msg.action = "JoinPool" -> receive_join_pool(msg.sender, to_send, contract)
    [] msg.action = "ExitPool" -> receive_exit_pool(msg.sender, to_send, contract)
    [] msg.action = "LockupAccount" ->
         IF ~nonpayable(to_send).ok THEN nonpayable(to_send)
         ELSE receive_create_lockup(st, channel, msg.sender, contract)
    [] msg.action = "Lock" -> receive_lock_tokens(st, channel, msg.sender, to_send)
    [] msg.action = "Claim" ->
         IF ~nonpayable(to_send).ok THEN nonpayable(to_send)
         ELSE receive_claim_tokens(st, channel, msg.sender)
    [] msg.action = "Unlock" ->
         IF ~nonpayable(to_send).ok THEN nonpayable(to_send)
         ELSE receive_unlock_tokens(st, channel, msg.sender)

\* receive_transfer with the payout addressed to the packet's sender
receive_transfer_to_sender(msg, to_send) ==
  LET send == send_amount(to_send, msg.sender)
      submsg == reply_on_error(send, RECEIVE_ID)
  IN Done(ReceiveResponse(ack_success, <<submsg>>, "receive"))

\* receive_transfer issuing the payout twice
receive_transfer_twice(msg, to_send) ==
  LET send == send_amount(to_send, msg.receiver)
      submsg == reply_on_error(send, RECEIVE_ID)
  IN Done(ReceiveResponse(ack_success, <<submsg, submsg>>, "receive"))

\* the no-action branch of do_ibc_packet_receive
receive_transfer(msg, to_send) ==
  LET send == send_amount(to_send, msg.receiver)
      submsg == reply_on_error(send, RECEIVE_ID)
  IN Done(ReceiveResponse(ack_success, <<submsg>>, "receive"))

\* do_ibc_packet_receive with the result of the debit ignored
do_ibc_packet_receive_unchecked(st, packet) ==
  LET msg == packet.data IN
  IF ~msg.decodable THEN Err(st, "ParseErr")
  ELSE
    LET channel == packet.dest.channel_id
        voucher == parse_voucher(msg.denom, packet.src)
    IN
    IF ~voucher.ok THEN Err(st, voucher.err)
    ELSE
      LET denom == voucher.denom
          reduced == reduce_channel_balance(st, channel, denom, msg.amount)
          saved == [reduced.st EXCEPT
                      !.reply_args = ReplyArgs(channel, denom, msg.amount, msg.sender)]
          to_send == Amount_from_parts(denom, msg.amount)
      IN
      IF msg.action # "None"
        THEN WithStore(saved, receive_action(saved, channel, msg, to_send, CONTRACT_ADDR))
        ELSE WithStore(saved, receive_transfer(msg, to_send))

do_ibc_packet_receive(st, packet) ==
  LET msg == packet.data IN
  IF ~msg.decodable THEN Err(st, "ParseErr")
  ELSE
    LET channel == packet.dest.channel_id
        voucher == parse_voucher(msg.denom, packet.src)
    IN
    IF ~voucher.ok THEN Err(st, voucher.err)
    ELSE
      LET denom == voucher.denom
          reduced == reduce_channel_balance(st, channel, denom, msg.amount)
      IN
      IF ~reduced.ok THEN Err(reduced.st, reduced.err)
      ELSE
        LET saved == [reduced.st EXCEPT
                        !.reply_args = ReplyArgs(channel, denom, msg.amount, msg.sender)]
            to_send == Amount_from_parts(denom, msg.amount)
        IN
        IF msg.action # "None"
          THEN WithStore(saved, receive_action(saved, channel, msg, to_send, CONTRACT_ADDR))
          ELSE WithStore(saved, receive_transfer(msg, to_send))

\* ibc_packet_receive without the or_else
ibc_packet_receive_no_catch(st, packet) == do_ibc_packet_receive(st, packet)

\* errors of do_ibc_packet_receive become Error acknowledgements; the entry
\* point itself returns Ok, so the host keeps the storage as written so far.
ibc_packet_receive(st, packet) ==
  LET r == do_ibc_packet_receive(st, packet) IN
  IF r.ok THEN r ELSE Ok(r.st, ReceiveErrorResponse(r.err))

\* -------------------------------------------------- nested-call outcomes
\* The response of a nested call, by what the reply handlers can decode of it:
\*   none        no data at all (tx.data = None)
\*   bad         data that no decoder accepts
\*   empty       an execute response whose inner data is absent
\*   raw         an execute response carrying an opaque payload
\*   coin        an execute response carrying a {denom, amount} coin
\*   gamm        events and data of a swap / join / exit carrying {denom, amount}
\*   instantiate an instantiate response carrying the created address
Txs ==
  {[t |-> "none"], [t |-> "bad"], [t |-> "empty"], [t |-> "raw"]}
    \cup [t : {"coin", "gamm"}, denom : LocalDenoms, amount : Amounts]
    \cup [t : {"instantiate"}, contract_address : Addrs]

NoTx == [t |-> "none"]
ErrorStrings == {"Invalid operation"}
SubMsgOk(tx) == [ok |-> TRUE, tx |-> tx, err |-> ""]
SubMsgErr(err) == [ok |-> FALSE, tx |-> NoTx, err |-> err]
SubMsgResults == {SubMsgOk(tx) : tx \in Txs} \cup {SubMsgErr(e) : e \in ErrorStrings}
Reply(id, result) == [id |-> id, result |-> result]

\* parse.rs is not part of the sources: decoding succeeds exactly on a
\* response that carries a {denom, amount} result (section 4.6).
parse_gamm_result(tx) ==
  IF tx.t = "gamm"
    THEN [ok |-> TRUE, err |-> "", denom |-> tx.denom, amount |-> tx.amount]
    ELSE [ok |-> FALSE, err |-> "ParseGammErr", denom |-> <<>>, amount |-> 0]

\* cw_utils::parse_reply_instantiate_data
parse_reply_instantiate_data(reply) ==
  IF reply.result.tx.t = "instantiate"
    THEN [ok |-> TRUE, err |-> "", contract_address |-> reply.result.tx.contract_address]
    ELSE [ok |-> FALSE, err |-> "ParseReplyErr", contract_address |-> NoAddr]

\* tx.data.ok_or(MissingReplyData), parse_execute_response_data(..)?,
\* .data.ok_or(MissingReplyData): the inner payload of an execute response
execute_response_data(tx) ==
  CASE tx.t = "none" -> [ok |-> FALSE, err |-> "MissingReplyData"]
    [] tx.t = "empty" -> [ok |-> FALSE, err |-> "MissingReplyData"]
    [] tx.t \in {"raw", "coin"} -> [ok |-> TRUE, err |-> ""]
    [] OTHER -> [ok |-> FALSE, err |-> "ParseReplyErr"]

\* from_binary::<Coin>
coin_from_binary(tx) ==
  IF tx.t = "coin" THEN [ok |-> TRUE, err |-> ""] ELSE [ok |-> FALSE, err |-> "ParseErr"]

\* ------------------------------------------------ reply continuation handler
Response(data) ==
  [ack |-> NoData, data |-> data, messages |-> <<>>,
   attrs |-> [action |-> "", success |-> "", error |-> ""]]

AmountResultAck(denom, amount) == [t |-> "amount", denom |-> denom, amount |-> amount]
LockupAck(contract) == [t |-> "lockup", contract |-> contract]

\* reply_gamm_result restoring the input debit on success as well
reply_gamm_result_also_restores(st, reply) ==
  LET restored == restore_balance_reply(st) IN
  IF ~restored.ok THEN restored
  ELSE IF reply.result.ok /\ parse_gamm_result(reply.result.tx).ok THEN
    LET gamm_res == parse_gamm_result(reply.result.tx)
        inc == increase_channel_balance(restored.st, st.reply_args.channel,
                                        gamm_res.denom, gamm_res.amount)
        data == AmountResultAck(gamm_res.denom, gamm_res.amount)
    IN Ok(inc.st, Response(ack_success_with_body(data)))
  ELSE IF reply.result.ok
    THEN Ok(restored.st, Response(ack_fail(parse_gamm_result(reply.result.tx).err)))
    ELSE Ok(restored.st, Response(ack_fail(reply.result.err)))

\* reply_gamm_result crediting the output to one fixed channel
reply_gamm_result_fixed_channel(st, reply) ==
  IF reply.result.ok THEN
    LET gamm_res == parse_gamm_result(reply.result.tx) IN
    IF gamm_res.ok THEN
      IF ~st.reply_args.present THEN Err(st, "NotFound")
      ELSE
        LET inc == increase_channel_balance(st, "channel-7",
                                            gamm_res.denom, gamm_res.amount)
            data == AmountResultAck(gamm_res.denom, gamm_res.amount)
        IN Ok(inc.st, Response(ack_success_with_body(data)))
    ELSE
      LET restored == restore_balance_reply(st) IN
      IF ~restored.ok THEN restored
      ELSE Ok(restored.st, Response(ack_fail(gamm_res.err)))
  ELSE
    LET restored == restore_balance_reply(st) IN
    IF ~restored.ok THEN restored
    ELSE Ok(restored.st, Response(ack_fail(reply.result.err)))

\* reply_gamm_result propagating the decoding error of a successful call
reply_gamm_result_decode_aborts(st, reply) ==
  IF reply.result.ok THEN
    LET gamm_res == parse_gamm_result(reply.result.tx) IN
    IF gamm_res.ok THEN
      IF ~st.reply_args.present THEN Err(st, "NotFound")
      ELSE
        LET inc == increase_channel_balance(st, st.reply_args.channel,
                                            gamm_res.denom, gamm_res.amount)
            data == AmountResultAck(gamm_res.denom, gamm_res.amount)
        IN Ok(inc.st, Response(ack_success_with_body(data)))
    ELSE Err(st, gamm_res.err)
  ELSE
    LET restored == restore_balance_reply(st) IN
    IF ~restored.ok THEN restored
    ELSE Ok(restored.st, Response(ack_fail(reply.result.err)))

reply_gamm_result(st, reply) ==
  IF reply.result.ok THEN
    LET gamm_res == parse_gamm_result(reply.result.tx) IN
    IF gamm_res.ok THEN
      IF ~st.reply_args.present THEN Err(st, "NotFound")
      ELSE
        LET inc == increase_channel_balance(st, st.reply_args.channel,
                                            gamm_res.denom, gamm_res.amount)
            data == AmountResultAck(gamm_res.denom, gamm_res.amount)
        IN Ok(inc.st, Response(ack_success_with_body(data)))
    ELSE
      LET restored == restore_balance_reply(st) IN
      IF ~restored.ok THEN restored
      ELSE Ok(restored.st, Response(ack_fail(gamm_res.err)))
  ELSE
    LET restored == restore_balance_reply(st) IN
    IF ~restored.ok THEN restored
    ELSE Ok(restored.st, Response(ack_fail(reply.result.err)))

\* reply_lockup_account without LOCKUP.save
reply_lockup_account_no_save(st, reply) ==
  IF reply.result.ok THEN
    LET res == parse_reply_instantiate_data(reply) IN
    IF res.ok THEN
      IF ~st.reply_args.present THEN Err(st, "NotFound")
      ELSE Ok(st, Response(ack_success_with_body(LockupAck(res.contract_address))))
    ELSE Ok(st, Response(ack_fail(res.err)))
  ELSE Ok(st, Response(ack_fail(reply.result.err)))

reply_lockup_account(st, reply) ==
  IF reply.result.ok THEN
    LET res == parse_reply_instantiate_data(reply) IN
    IF res.ok THEN
      IF ~st.reply_args.present THEN Err(st, "NotFound")
      ELSE
        LET saved == [st EXCEPT
                        !.lockup[<<st.reply_args.channel, st.reply_args.sender>>] =
                           res.contract_address]
        IN Ok(saved, Response(ack_success_with_body(LockupAck(res.contract_address))))
    ELSE Ok(st, Response(ack_fail(res.err)))
  ELSE Ok(st, Response(ack_fail(reply.result.err)))

reply_claim_result(st, reply) ==
  IF reply.result.ok THEN
    LET tx == reply.result.tx
        data == execute_response_data(tx)
    IN
    IF ~data.ok THEN Err(st, data.err)
    ELSE IF ~coin_from_binary(tx).ok THEN Err(st, coin_from_binary(tx).err)
    ELSE IF ~st.reply_args.present THEN Err(st, "NotFound")
    ELSE
      LET inc == increase_channel_balance(st, st.reply_args.channel, tx.denom, tx.amount)
          ack == AmountResultAck(tx.denom, tx.amount)
      IN Ok(inc.st, Response(ack_success_with_body(ack)))
  ELSE
    LET restored == restore_balance_reply(st) IN
    IF ~restored.ok THEN restored
    ELSE Ok(restored.st, Response(ack_fail(reply.result.err)))

\* reply_ack_from_data without restore_balance_reply on failure
reply_ack_from_data_no_restore(st, reply) ==
  IF reply.result.ok THEN
    LET data == execute_response_data(reply.result.tx) IN
    IF ~data.ok THEN Err(st, data.err)
    ELSE Ok(st, Response(ack_success_with_body(reply.result.tx)))
  ELSE Ok(st, Response(ack_fail(reply.result.err)))

\* reply_ack_from_data answering success with the bare success marker
reply_ack_from_data_marker(st, reply) ==
  IF reply.result.ok THEN
    LET data == execute_response_data(reply.result.tx) IN
    IF ~data.ok THEN Err(st, data.err)
    ELSE Ok(st, Response(ack_success))
  ELSE
    LET restored == restore_balance_reply(st) IN
    IF ~restored.ok THEN restored
    ELSE Ok(restored.st, Response(ack_fail(reply.result.err)))

\* reply_ack_from_data answering a success without data with an empty payload
reply_ack_from_data_unwrap_or_default(st, reply) ==
  IF reply.result.ok THEN Ok(st, Response(ack_success_with_body(reply.result.tx)))
  ELSE
    LET restored == restore_balance_reply(st) IN
    IF ~restored.ok THEN restored
    ELSE Ok(restored.st, Response(ack_fail(reply.result.err)))

reply_ack_from_data(st, reply) ==
  IF reply.result.ok THEN
    LET data == execute_response_data(reply.result.tx) IN
    IF ~data.ok THEN Err(st, data.err)
    ELSE Ok(st, Response(ack_success_with_body(reply.result.tx)))
  ELSE
    LET restored == restore_balance_reply(st) IN
    IF ~restored.ok THEN restored
    ELSE Ok(restored.st, Response(ack_fail(reply.result.err)))

\* reply_ack_on_error issuing the call again on failure
reply_ack_on_error_retry(st, reply) ==
  IF reply.result.ok THEN Ok(st, Response(NoData))
  ELSE Ok(st, [Response(ack_fail(reply.result.err)) EXCEPT
                 !.messages = <<reply_on_error([type |-> "retry"], reply.id)>>])

reply_ack_on_error(st, reply) ==
  IF reply.result.ok THEN Ok(st, Response(NoData))
  ELSE Ok(st, Response(ack_fail(reply.result.err)))

\* reply_receive without restore_balance_reply on failure
reply_receive_no_restore(st, reply) ==
  IF reply.result.ok THEN Ok(st, Response(NoData))
  ELSE Ok(st, Response(ack_fail(reply.result.err)))

\* reply_receive restoring the debit whatever the outcome
reply_receive_always_restores(st, reply) ==
  LET restored == restore_balance_reply(st) IN
  IF ~restored.ok THEN restored
  ELSE IF reply.result.ok THEN Ok(restored.st, Response(NoData))
  ELSE Ok(restored.st, Response(ack_fail(reply.result.err)))

\* reply_receive answering a failure even when there is nothing to restore from
reply_receive_ignores_missing(st, reply) ==
  IF reply.result.ok THEN Ok(st, Response(NoData))
  ELSE
    LET restored == restore_balance_reply(st) IN
    IF ~restored.ok THEN Ok(st, Response(ack_fail(reply.result.err)))
    ELSE Ok(restored.st, Response(ack_fail(reply.result.err)))

reply_receive(st, reply) ==
  IF reply.result.ok THEN Ok(st, Response(NoData))
  ELSE
    LET restored == restore_balance_reply(st) IN
    IF ~restored.ok THEN restored
    ELSE Ok(restored.st, Response(ack_fail(reply.result.err)))

\* reply with a catch-all arm that treats an unknown id as a payout reply
reply_default_arm(st, r) ==
  CASE r.id = RECEIVE_ID -> reply_receive(st, r)
    [] r.id = SWAP_ID -> reply_gamm_result(st, r)
    [] r.id = JOIN_POOL_ID -> reply_gamm_result(st, r)
    [] r.id = EXIT_POOL_ID -> reply_gamm_result(st, r)
    [] r.id = LOCKUP_ID -> reply_lockup_account(st, r)
    [] r.id = LOCK_TOKEN_ID -> reply_ack_from_data(st, r)
    [] r.id = CLAIM_TOKEN_ID -> reply_claim_result(st, r)
    [] r.id = UNLOCK_TOKEN_ID -> reply_ack_on_error(st, r)
    [] OTHER -> reply_ack_on_error(st, r)

reply(st, r) ==
  CASE r.id = RECEIVE_ID -> reply_receive(st, r)
    [] r.id = SWAP_ID -> reply_gamm_result(st, r)
    [] r.id = JOIN_POOL_ID -> reply_gamm_result(st, r)
    [] r.id = EXIT_POOL_ID -> reply_gamm_result(st, r)
    [] r.id = LOCKUP_ID -> reply_lockup_account(st, r)
    [] r.id = LOCK_TOKEN_ID -> reply_ack_from_data(st, r)
    [] r.id = CLAIM_TOKEN_ID -> reply_claim_result(st, r)
    [] r.id = UNLOCK_TOKEN_ID -> reply_ack_on_error(st, r)
    [] r.id = ACK_FAILURE_ID -> reply_ack_on_error(st, r)
    [] OTHER -> Err(st, "UnknownReplyId")

\* ------------------------------------------ acknowledgement / timeout settlement
\* The original packet of an acknowledgement or timeout was sent by this
\* endpoint: its source channel is a local channel, its denom a local one.
SentPackets ==
  [data : [decodable : {TRUE}, amount : Amounts, denom : LocalDenoms,
           sender : Receivers, receiver : Senders, action : {"None"}]
          \cup {Garbage},
   src : [channel_id : Channels]]

Acknowledgements ==
  {[decodable |-> FALSE, kind |-> "", msg |-> ""],
   [decodable |-> TRUE, kind |-> "Result", msg |-> ""],
   [decodable |-> TRUE, kind |-> "Error", msg |-> "remote failure"]}

BasicResponse(messages, success, error) ==
  [ack |-> NoData, data |-> NoData, messages |-> messages,
   attrs |-> [action |-> "acknowledge", success |-> success, error |-> error]]

on_packet_success(st, packet) ==
  IF ~packet.data.decodable THEN Err(st, "ParseErr")
  ELSE Ok(st, BasicResponse(<<>>, "true", ""))

\* on_packet_failure paying out to the packet's receiver
on_packet_failure_to_receiver(st, packet, err) ==
  LET msg == packet.data IN
  IF ~msg.decodable THEN Err(st, "ParseErr")
  ELSE
    LET reduced == reduce_channel_balance(st, packet.src.channel_id, msg.denom, msg.amount) IN
    IF ~reduced.ok THEN reduced
    ELSE
      LET to_send == Amount_from_parts(msg.denom, msg.amount)
          send == send_amount(to_send, msg.receiver)
          submsg == reply_on_error(send, ACK_FAILURE_ID)
      IN Ok(reduced.st, BasicResponse(<<submsg>>, "false", err))

\* on_packet_failure reporting a failed debit in a successful response, as
\* the receive entry point does
on_packet_failure_caught(st, packet, err) ==
  LET msg == packet.data IN
  IF ~msg.decodable THEN Err(st, "ParseErr")
  ELSE
    LET reduced == reduce_channel_balance(st, packet.src.channel_id, msg.denom, msg.amount) IN
    IF ~reduced.ok THEN Ok(st, BasicResponse(<<>>, "false", reduced.err))
    ELSE
      LET to_send == Amount_from_parts(msg.denom, msg.amount)
          send == send_amount(to_send, msg.sender)
          submsg == reply_on_error(send, ACK_FAILURE_ID)
      IN Ok(reduced.st, BasicResponse(<<submsg>>, "false", err))

on_packet_failure(st, packet, err) ==
  LET msg == packet.data IN
  IF ~msg.decodable THEN Err(st, "ParseErr")
  ELSE
    LET reduced == reduce_channel_balance(st, packet.src.channel_id, msg.denom, msg.amount) IN
    IF ~reduced.ok THEN reduced
    ELSE
      LET to_send == Amount_from_parts(msg.denom, msg.amount)
          send == send_amount(to_send, msg.sender)
          submsg == reply_on_error(send, ACK_FAILURE_ID)
      IN Ok(reduced.st, BasicResponse(<<submsg>>, "false", err))

\* ibc_packet_ack settling every decodable acknowledgement as a failure
ibc_packet_ack_always_failure(st, msg) ==
  IF ~msg.acknowledgement.decodable THEN Err(st, "ParseErr")
  ELSE on_packet_failure(st, msg.original_packet, msg.acknowledgement.msg)

ibc_packet_ack(st, msg) ==
  IF ~msg.acknowledgement.decodable THEN Err(st, "ParseErr")
  ELSE IF msg.acknowledgement.kind = "Result" THEN on_packet_success(st, msg.original_packet)
  ELSE on_packet_failure(st, msg.original_packet, msg.acknowledgement.msg)

\* ibc_packet_timeout treating the timeout as a confirmed delivery
ibc_packet_timeout_as_success(st, msg) ==
  on_packet_success(st, msg.packet)

ibc_packet_timeout(st, msg) ==
  on_packet_failure(st, msg.packet, "timeout")

\* ------------------------------------------------------- channel lifecycle
ICS20_ORDERING == "Unordered"
Versions == {ICS20_VERSION, "ics20-2"}
Orders == {ICS20_ORDERING, "Ordered"}
CounterpartyEndpoints ==
  {RemoteEndpoint, [port_id |-> "transfer", channel_id |-> "channel-0"]}
ConnectionIds == {"connection-2"}

\* Option<&str>: the counterparty version is absent in OpenInit and
\* OpenConfirm, present in OpenTry and OpenAck
NoVersion == [some |-> FALSE]
SomeVersion(v) == [some |-> TRUE, version |-> v]
CounterpartyVersions == {NoVersion} \cup {SomeVersion(v) : v \in Versions}

IbcChannels ==
  [endpoint : [channel_id : Channels],
   counterparty_endpoint : CounterpartyEndpoints,
   order : Orders, version : Versions, connection_id : ConnectionIds]

\* IbcChannelOpenMsg and IbcChannelConnectMsg
ChannelHandshakeMsgs ==
  [channel : IbcChannels, counterparty_version : CounterpartyVersions]

\* IbcChannelCloseMsg
ChannelCloseMsgs == [kind : {"CloseInit", "CloseConfirm"}, channel : IbcChannels]

ChannelInfo(id, counterparty_endpoint, connection_id) ==
  [present |-> TRUE, id |-> id, counterparty_endpoint |-> counterparty_endpoint,
   connection_id |-> connection_id]

\* IbcBasicResponse::default() / IbcBasicResponse::new()
EmptyBasicResponse ==
  [ack |-> NoData, data |-> NoData, messages |-> <<>>,
   attrs |-> [action |-> "", success |-> "", error |-> ""]]

\* enforce_order_and_version without the counterparty version check
enforce_order_and_version_own_only(channel, counterparty_version) ==
  IF channel.version # ICS20_VERSION THEN Failed("InvalidIbcVersion")
  ELSE IF channel.order # ICS20_ORDERING THEN Failed("OnlyOrderedChannel")
  ELSE Done(NoResp)

enforce_order_and_version(channel, counterparty_version) ==
  IF channel.version # ICS20_VERSION THEN Failed("InvalidIbcVersion")
  ELSE IF counterparty_version.some /\ counterparty_version.version # ICS20_VERSION
    THEN Failed("InvalidIbcVersion")
  ELSE IF channel.order # ICS20_ORDERING THEN Failed("OnlyOrderedChannel")
  ELSE Done(NoResp)

ibc_channel_open(st, msg) ==
  LET checked == enforce_order_and_version(msg.channel, msg.counterparty_version) IN
  IF ~checked.ok THEN Err(st, checked.err)
  ELSE Ok(st, NoResp)

ibc_channel_connect(st, msg) ==
  LET checked == enforce_order_and_version(msg.channel, msg.counterparty_version) IN
  IF ~checked.ok THEN Err(st, checked.err)
  ELSE
    LET channel == msg.channel
        info == ChannelInfo(channel.endpoint.channel_id, channel.counterparty_endpoint,
                            channel.connection_id)
    IN Ok([st EXCEPT !.channel_info[info.id] = info], EmptyBasicResponse)

\* ibc_channel_close accepting a local close request as well
ibc_channel_close_any(st, channel) ==
  Ok(st, EmptyBasicResponse)

ibc_channel_close(st, channel) ==
  CASE channel.kind = "CloseConfirm" -> Ok(st, EmptyBasicResponse)
    [] channel.kind = "CloseInit" -> Err(st, "CannotClose")

\* ===================================================================== state
VARIABLES
  balance,     \* CHANNEL_STATE: (channel, denom) -> escrowed amount
  reply_args,  \* REPLY_ARGS: the pending continuation slot
  lockup,      \* LOCKUP: (channel, sender) -> sub-account address
  pending,     \* the nested call issued by the current transaction, not yet resolved
  ack,         \* output data of the current transaction (the acknowledgement)
  resp,        \* the last handler invocation: its input and what it returned
  cur,         \* the packet the current transaction is processing
  pre,         \* the storage when the current transaction started
  prev,        \* the storage when the last handler invocation started
  net,         \* per (channel, denom): credits minus debits applied so far
  channel_info \* CHANNEL_INFO: channel id -> the record saved at connect

vars ==
  <<balance, reply_args, lockup, pending, ack, resp, cur, pre, prev, net, channel_info>>

Store ==
  [balance |-> balance, reply_args |-> reply_args, lockup |-> lockup,
   channel_info |-> channel_info]

Commit(st) ==
  /\ balance' = st.balance
  /\ reply_args' = st.reply_args
  /\ lockup' = st.lockup
  /\ channel_info' = st.channel_info

RECURSIVE Sum(_, _)
Sum(f, keys) ==
  IF keys = {} THEN 0
  ELSE LET k == CHOOSE x \in keys : TRUE IN f[k] + Sum(f, keys \ {k})

\* the model caps the escrow held over all channels and denominations
WithinBounds(st) == Sum(st.balance, LedgerKeys) <= MaxBalance

NoPacket == [data |-> Garbage]
NoReply == [id |-> 0, result |-> [ok |-> TRUE, tx |-> [t |-> "none"], err |-> ""]]
Invocation(handler, rep, r) ==
  [handler |-> handler, reply |-> rep, ok |-> r.ok, err |-> r.err, out |-> r.resp]
NoInvocation ==
  [handler |-> "none", reply |-> NoReply, ok |-> TRUE, err |-> "", out |-> NoResp]

FirstMessage(r) ==
  IF r.ok /\ Len(r.resp.messages) > 0 THEN r.resp.messages[1] ELSE NoSubMsg

NoTransaction == [handler |-> "none", packet |-> NoPacket]
Transaction(handler, packet) == [handler |-> handler, packet |-> packet]
\* an acknowledgement transaction also records the acknowledgement delivered
AckTransaction(msg) ==
  [handler |-> "ack", packet |-> msg.original_packet,
   acknowledgement |-> msg.acknowledgement]

Init ==
  /\ balance = EmptyStore.balance
  /\ reply_args = EmptyStore.reply_args
  /\ lockup = EmptyStore.lockup
  /\ channel_info = EmptyStore.channel_info
  /\ pending = NoSubMsg
  /\ ack = NoData
  /\ resp = NoInvocation
  /\ cur = NoTransaction
  /\ pre = EmptyStore
  /\ prev = EmptyStore
  /\ net = EmptyStore.balance

\* ------------------------------------------------- the ledger as accounted
\* What each invocation is accounted to credit or debit (sections 4.3, 4.6,
\* 4.7 and the code's calls of the ledger), kept apart from the handlers'
\* writes so that the two can be compared.
Credit(n, channel, denom, amount) == [n EXCEPT ![<<channel, denom>>] = @ + amount]
Debit(n, channel, denom, amount) == [n EXCEPT ![<<channel, denom>>] = @ - amount]

LocalDenom(packet) == parse_voucher(packet.data.denom, packet.src).denom

ReceiveDebits(packet) ==
  /\ packet.data.decodable
  /\ parse_voucher(packet.data.denom, packet.src).ok
  /\ balance[<<packet.dest.channel_id, LocalDenom(packet)>>] >= packet.data.amount

NetAfterReceive(packet) ==
  IF ReceiveDebits(packet)
    THEN Debit(net, packet.dest.channel_id, LocalDenom(packet), packet.data.amount)
    ELSE net

RestoringIds ==
  {RECEIVE_ID, SWAP_ID, JOIN_POOL_ID, EXIT_POOL_ID, LOCK_TOKEN_ID, CLAIM_TOKEN_ID}
GammIds == {SWAP_ID, JOIN_POOL_ID, EXIT_POOL_ID}

\* the reply of the nested call of the received packet cur.packet
NetAfterReply(id, result) ==
  LET packet == cur.packet
      channel == packet.dest.channel_id
      restored == Credit(net, channel, LocalDenom(packet), packet.data.amount)
  IN
  CASE ~result.ok /\ id \in RestoringIds -> restored
    [] result.ok /\ id \in GammIds /\ result.tx.t = "gamm" ->
         Credit(net, channel, result.tx.denom, result.tx.amount)
    [] result.ok /\ id \in GammIds /\ result.tx.t # "gamm" -> restored
    [] result.ok /\ id = CLAIM_TOKEN_ID /\ result.tx.t = "coin" ->
         Credit(net, channel, result.tx.denom, result.tx.amount)
    [] OTHER -> net

SettlementDebits(packet) ==
  /\ packet.data.decodable
  /\ balance[<<packet.src.channel_id, packet.data.denom>>] >= packet.data.amount

NetAfterSettlement(packet) ==
  IF SettlementDebits(packet)
    THEN Debit(net, packet.src.channel_id, packet.data.denom, packet.data.amount)
    ELSE net

\* ================================================================== actions
\* No transaction is running: the last one was committed.
Idle == pending = NoSubMsg /\ cur = NoTransaction /\ resp = NoInvocation

\* The outbound transfer (contract.rs, not part of the sources) records new
\* escrow with a ledger credit (section 4.3).
Transfer(channel, denom, amount) ==
  LET r == increase_channel_balance(Store, channel, denom, amount) IN
  /\ Idle
  /\ WithinBounds(r.st)
  /\ Commit(r.st)
  /\ pre' = r.st
  /\ prev' = r.st
  /\ net' = Credit(net, channel, denom, amount)
  /\ UNCHANGED <<pending, ack, resp, cur>>

\* The host delivers a packet: a new transaction.
PacketReceive(packet) ==
  LET r == ibc_packet_receive(Store, packet) IN
  /\ Idle
  /\ Commit(IF r.ok THEN r.st ELSE Store)
  /\ pending' = FirstMessage(r)
  /\ ack' = IF r.ok THEN r.resp.ack ELSE NoData
  /\ resp' = Invocation("receive", NoReply, r)
  /\ cur' = Transaction("receive", packet)
  /\ net' = NetAfterReceive(packet)
  /\ UNCHANGED <<pre, prev>>

\* The host delivers the acknowledgement of a packet this endpoint sent.
PacketAck(msg) ==
  LET r == ibc_packet_ack(Store, msg) IN
  /\ Idle
  /\ Commit(IF r.ok THEN r.st ELSE Store)
  /\ pending' = FirstMessage(r)
  /\ ack' = NoData
  /\ resp' = Invocation("ack", NoReply, r)
  /\ cur' = AckTransaction(msg)
  /\ net' = IF msg.acknowledgement.decodable /\ msg.acknowledgement.kind = "Error"
              THEN NetAfterSettlement(msg.original_packet) ELSE net
  /\ UNCHANGED <<pre, prev>>

\* The host delivers the timeout of a packet this endpoint sent.
PacketTimeout(msg) ==
  LET r == ibc_packet_timeout(Store, msg) IN
  /\ Idle
  /\ Commit(IF r.ok THEN r.st ELSE Store)
  /\ pending' = FirstMessage(r)
  /\ ack' = NoData
  /\ resp' = Invocation("timeout", NoReply, r)
  /\ cur' = Transaction("timeout", msg.packet)
  /\ net' = NetAfterSettlement(msg.packet)
  /\ UNCHANGED <<pre, prev>>

\* The transaction has no nested call left to resolve: the host commits it
\* and the next invocation starts from its storage.
TransactionCommits ==
  /\ pending = NoSubMsg
  /\ cur # NoTransaction
  /\ ack' = NoData
  /\ resp' = NoInvocation
  /\ cur' = NoTransaction
  /\ pre' = Store
  /\ prev' = Store
  /\ UNCHANGED <<balance, reply_args, lockup, channel_info, pending, net>>

\* What the host can answer to a nested call, by the kind of its request.
HostTxs(submsg) ==
  CASE submsg.msg.type = "stargate" ->
         [t : {"gamm"}, denom : LocalDenoms, amount : Amounts] \cup {[t |-> "bad"]}
    [] submsg.msg.type = "wasm_instantiate" ->
         [t : {"instantiate"}, contract_address : Addrs] \cup {[t |-> "bad"]}
    [] submsg.msg.type = "wasm_execute" /\ submsg.msg.msg = "Claim" ->
         [t : {"coin"}, denom : LocalDenoms, amount : Amounts]
           \cup {[t |-> "none"], [t |-> "empty"], [t |-> "raw"]}
    [] submsg.msg.type = "wasm_execute" /\ submsg.msg.msg # "Claim" ->
         {[t |-> "none"], [t |-> "empty"], [t |-> "raw"]}
    [] OTHER -> {[t |-> "none"]}

\* The reply entry point as the host runs it for the pending nested call:
\* Ok keeps the handler's writes and its data, if any, replaces the
\* transaction's output; Err aborts the whole transaction, whose writes
\* (those of the receive included) the host discards.
HostReply(result) ==
  LET rep == Reply(pending.id, result)
      r == reply(Store, rep)
  IN
  /\ r.ok => WithinBounds(r.st)
  /\ Commit(IF r.ok THEN r.st ELSE pre)
  /\ pending' = NoSubMsg
  /\ ack' = IF ~r.ok THEN NoData
            ELSE IF r.resp.data # NoData THEN r.resp.data ELSE ack
  /\ resp' = Invocation("reply", rep, r)
  /\ prev' = Store
  /\ net' = IF r.ok
              THEN (IF cur.handler = "receive" THEN NetAfterReply(pending.id, result) ELSE net)
              ELSE NetAfterReply(pending.id, SubMsgErr("aborted"))
  /\ UNCHANGED <<cur, pre>>

\* The nested call succeeded and its policy is notify-always.
SubMsgSucceeds(tx) ==
  /\ pending # NoSubMsg
  /\ pending.reply_on = "always"
  /\ tx \in HostTxs(pending)
  /\ HostReply(SubMsgOk(tx))

\* The nested call succeeded and its policy is notify-on-failure-only:
\* the transaction ends without a reply.
SubMsgSucceedsUnnoticed ==
  /\ pending # NoSubMsg
  /\ pending.reply_on = "error"
  /\ pending' = NoSubMsg
  /\ UNCHANGED <<balance, reply_args, lockup, channel_info, ack, resp, cur, pre, prev, net>>

\* The nested call failed: both policies notify.
SubMsgFails(err) ==
  /\ pending # NoSubMsg
  /\ HostReply(SubMsgErr(err))

\* The reply entry point called with an id this contract never issues, as a
\* misconfigured host or a direct call would: the `_` arm of reply.
UnknownReplyIds == {0, RECEIVE_ID + 1}
UnknownReply(id, result) ==
  LET rep == Reply(id, result)
      r == reply(Store, rep)
  IN
  /\ Idle
  /\ id \notin KnownReplyIds
  /\ Commit(IF r.ok THEN r.st ELSE Store)
  /\ pending' = FirstMessage(r)
  /\ ack' = IF r.ok THEN r.resp.data ELSE NoData
  /\ resp' = Invocation("reply", rep, r)
  /\ cur' = Transaction("reply", NoPacket)
  /\ UNCHANGED <<pre, prev, net>>

\* The reply entry point called with one of the nine ids while no
\* continuation is recorded: the slot is still empty.
ReplyWithoutContinuation(id, result) ==
  LET rep == Reply(id, result)
      r == reply(Store, rep)
  IN
  /\ Idle
  /\ id \in KnownReplyIds
  /\ ~reply_args.present
  /\ r.ok => WithinBounds(r.st)
  /\ Commit(IF r.ok THEN r.st ELSE Store)
  /\ pending' = FirstMessage(r)
  /\ ack' = IF r.ok THEN r.resp.data ELSE NoData
  /\ resp' = Invocation("reply", rep, r)
  /\ cur' = Transaction("reply", NoPacket)
  /\ UNCHANGED <<pre, prev, net>>

\* The host runs a step of the channel handshake or of the channel closing.
ChannelTransaction(handler, msg) ==
  [handler |-> handler, packet |-> NoPacket, channel_msg |-> msg]

ChannelOpen(msg) ==
  LET r == ibc_channel_open(Store, msg) IN
  /\ Idle
  /\ Commit(IF r.ok THEN r.st ELSE Store)
  /\ pending' = NoSubMsg
  /\ ack' = NoData
  /\ resp' = Invocation("channel_open", NoReply, r)
  /\ cur' = ChannelTransaction("channel_open", msg)
  /\ UNCHANGED <<pre, prev, net>>

ChannelConnect(msg) ==
  LET r == ibc_channel_connect(Store, msg) IN
  /\ Idle
  /\ Commit(IF r.ok THEN r.st ELSE Store)
  /\ pending' = FirstMessage(r)
  /\ ack' = NoData
  /\ resp' = Invocation("channel_connect", NoReply, r)
  /\ cur' = ChannelTransaction("channel_connect", msg)
  /\ UNCHANGED <<pre, prev, net>>

ChannelClose(msg) ==
  LET r == ibc_channel_close(Store, msg) IN
  /\ Idle
  /\ Commit(IF r.ok THEN r.st ELSE Store)
  /\ pending' = FirstMessage(r)
  /\ ack' = NoData
  /\ resp' = Invocation("channel_close", NoReply, r)
  /\ cur' = ChannelTransaction("channel_close", msg)
  /\ UNCHANGED <<pre, prev, net>>

Next ==
  \/ \E c \in Channels, d \in LocalDenoms, a \in 1..MaxAmount : Transfer(c, d, a)
  \/ \E p \in IbcPackets : PacketReceive(p)
  \/ \E p \in SentPackets, a \in Acknowledgements :
       PacketAck([acknowledgement |-> a, original_packet |-> p])
  \/ \E p \in SentPackets : PacketTimeout([packet |-> p])
  \/ \E tx \in Txs : SubMsgSucceeds(tx)
  \/ SubMsgSucceedsUnnoticed
  \/ \E e \in ErrorStrings : SubMsgFails(e)
  \/ \E id \in UnknownReplyIds, result \in {SubMsgOk(NoTx)} \cup {SubMsgErr(e) : e \in ErrorStrings} :
       UnknownReply(id, result)
  \/ \E id \in KnownReplyIds, result \in SubMsgResults :
       ReplyWithoutContinuation(id, result)
  \/ TransactionCommits

Spec == Init /\ [][Next]_vars

\* The channel lifecycle: handshakes and closings, between outbound
\* transfers and the packet traffic of one channel and one denomination
\* (plain receives and lockup creations, acknowledgements and timeouts).
LifecyclePackets ==
  {p \in IbcPackets :
     /\ p.dest.channel_id = "channel-9"
     /\ p.data.decodable
     /\ p.data.denom = <<"transfer", "channel-1234">> \o UATOM
     /\ p.data.amount <= 1
     /\ p.data.action \in {"None", "LockupAccount"}}

LifecycleSentPackets ==
  {p \in SentPackets :
     p.data.decodable /\ p.src.channel_id = "channel-9" /\ p.data.denom = UATOM
       /\ p.data.amount = 1}

ChannelNext ==
  \/ \E c \in Channels, a \in 1..MaxAmount : Transfer(c, UATOM, a)
  \/ \E m \in ChannelHandshakeMsgs : ChannelOpen(m)
  \/ \E m \in ChannelHandshakeMsgs : ChannelConnect(m)
  \/ \E m \in ChannelCloseMsgs : ChannelClose(m)
  \/ \E p \in LifecyclePackets : PacketReceive(p)
  \/ \E p \in LifecycleSentPackets, a \in Acknowledgements :
       PacketAck([acknowledgement |-> a, original_packet |-> p])
  \/ \E p \in LifecycleSentPackets : PacketTimeout([packet |-> p])
  \/ \E tx \in Txs : SubMsgSucceeds(tx)
  \/ SubMsgSucceedsUnnoticed
  \/ \E e \in ErrorStrings : SubMsgFails(e)
  \/ TransactionCommits

ChannelSpec == Init /\ [][ChannelNext]_vars

\* =================================================================== claims
\* the received packet of the current transaction
Received == cur.handler = "receive"
Msg == cur.packet.data
Parses == Msg.decodable /\ parse_voucher(Msg.denom, cur.packet.src).ok
Key == <<cur.packet.dest.channel_id, LocalDenom(cur.packet)>>
ReceiveReturned == resp.handler = "receive"
ReplyReturned == resp.handler = "reply" /\ Received
ReplyFailure == ReplyReturned /\ ~resp.reply.result.ok
ReplySuccess == ReplyReturned /\ resp.reply.result.ok

\* C1: every ibc_packet_receive invocation returns a host-level success whose
\* acknowledgement is Result or Error, whatever the packet.
C1_AckTotal ==
  ReceiveReturned => resp.ok /\ resp.out.ack.kind \in {"Result", "Error"}

C1_Witness ==
  /\ ReceiveReturned
  /\ ~Msg.decodable
  /\ resp.ok
  /\ resp.out.ack.kind = "Error"

\* C2: the stored balance of every (channel, denom) is the sum of the credits
\* minus the sum of the debits applied to it, and is never negative.
C2_EscrowConservation ==
  \A k \in LedgerKeys : balance[k] = net[k] /\ balance[k] >= 0

C2_Witness ==
  /\ ReplyFailure
  /\ Msg.action = "Swap"
  /\ Msg.amount > 0
  /\ balance[Key] = pre.balance[Key]
  /\ prev.balance[Key] < pre.balance[Key]

\* C3: whenever the final acknowledgement of a received packet is Error, the
\* balance of the packet's (destination channel, local denom) equals its
\* value before the receive.
C3_NoStrandedFunds ==
  (Received /\ pending = NoSubMsg /\ Parses /\ ack.kind = "Error")
    => balance[Key] = pre.balance[Key]

\* C4: a packet for more than the stored balance of (destination channel,
\* local denom) is acknowledged with Error(InsufficientFunds), issues no
\* nested call and leaves that balance unchanged.
C4_InsufficientFunds ==
  (ReceiveReturned /\ Parses /\ Msg.amount > pre.balance[Key])
    => /\ resp.ok
       /\ resp.out.ack = ack_fail("InsufficientFunds")
       /\ resp.out.messages = <<>>
       /\ pending = NoSubMsg
       /\ balance[Key] = pre.balance[Key]

C4_Witness ==
  /\ ReceiveReturned
  /\ Parses
  /\ Msg.amount > pre.balance[Key]
  /\ resp.out.ack = ack_fail("InsufficientFunds")
  /\ \E k \in LedgerKeys : balance[k] > 0

\* C5: a no-action packet for amount a with balance b >= a reduces the
\* balance to b - a, issues exactly one payout (bank send of a of the local
\* denom to the receiver, id plain-receive) and acknowledges with Result; a
\* success reply for plain-receive then changes neither the acknowledgement
\* nor the storage.
C5_PlainReceive ==
  (ReceiveReturned /\ Parses /\ Msg.action = "None" /\ Msg.amount <= pre.balance[Key])
    => /\ resp.ok
       /\ balance[Key] = pre.balance[Key] - Msg.amount
       /\ resp.out.messages =
            << [id |-> RECEIVE_ID, reply_on |-> "error",
                msg |-> [type |-> "bank_send", to_address |-> Msg.receiver,
                         denom |-> LocalDenom(cur.packet), amount |-> Msg.amount]] >>
       /\ resp.out.ack.kind = "Result"
       /\ \A tx \in Txs :
            LET r == reply(Store, Reply(RECEIVE_ID, SubMsgOk(tx))) IN
            r.ok /\ r.st = Store /\ r.resp.data = NoData

C5_Witness ==
  /\ ReceiveReturned
  /\ Parses
  /\ Msg.action = "None"
  /\ Msg.amount > 0
  /\ pre.balance[Key] > Msg.amount
  /\ balance[Key] = pre.balance[Key] - Msg.amount
  /\ pending.id = RECEIVE_ID

\* C6: when the reply for the nested call of a Swap, JoinPool, ExitPool,
\* Claim or Lock packet is a failure, the balance of (channel, denom) is
\* credited by the packet's amount, so it equals its value before the
\* receive, and the acknowledgement becomes Error(the nested call's error).
C6_FailureReplyRestores ==
  (ReplyFailure /\ Msg.action \in {"Swap", "JoinPool", "ExitPool", "Claim", "Lock"})
    => /\ resp.ok
       /\ balance[Key] = prev.balance[Key] + Msg.amount
       /\ balance[Key] = pre.balance[Key]
       /\ resp.out.data = ack_fail(resp.reply.result.err)
       /\ ack = ack_fail(resp.reply.result.err)

C6_Witness ==
  /\ ReplyFailure
  /\ Msg.action = "Lock"
  /\ Msg.amount > 0
  /\ balance[Key] = pre.balance[Key]
  /\ ack.kind = "Error"

\* C7: a success reply carrying {denom d, amount r} for a Swap, JoinPool,
\* ExitPool or Claim continuation increases the balance of (pending channel,
\* d) by exactly r, restores nothing else, and sets the acknowledgement to
\* Result({d, r}).
ResultBearing ==
  \/ resp.reply.id \in GammIds /\ resp.reply.result.tx.t = "gamm"
  \/ resp.reply.id = CLAIM_TOKEN_ID /\ resp.reply.result.tx.t = "coin"

C7_SuccessReplyCredits ==
  (ReplySuccess /\ ResultBearing)
    => LET d == resp.reply.result.tx.denom
           r == resp.reply.result.tx.amount
       IN /\ resp.ok
          /\ balance = [prev.balance EXCEPT ![<<prev.reply_args.channel, d>>] = @ + r]
          /\ prev.reply_args.channel = cur.packet.dest.channel_id
          /\ resp.out.data = ack_success_with_body([t |-> "amount", denom |-> d, amount |-> r])
          /\ ack = resp.out.data

C7_Witness ==
  /\ ReplySuccess
  /\ resp.reply.id = SWAP_ID
  /\ resp.reply.result.tx.t = "gamm"
  /\ resp.reply.result.tx.amount > 0
  /\ resp.reply.result.tx.denom # LocalDenom(cur.packet)
  /\ Msg.amount > 0
  /\ ack.kind = "Result"

\* C8: when the payout of a plain receive fails, the plain-receive reply
\* credits the balance of (channel, denom) by the packet's amount, back to its
\* value before the receive, and overwrites the acknowledgement with
\* Error(message).
C8_PayoutFailureRestores ==
  (ReplyFailure /\ Msg.action = "None")
    => /\ resp.ok
       /\ resp.reply.id = RECEIVE_ID
       /\ balance[Key] = prev.balance[Key] + Msg.amount
       /\ balance[Key] = pre.balance[Key]
       /\ prev.balance[Key] = pre.balance[Key] - Msg.amount
       /\ ack = ack_fail(resp.reply.result.err)

C8_Witness ==
  /\ ReplyFailure
  /\ Msg.action = "None"
  /\ Msg.amount > 0
  /\ balance[Key] = pre.balance[Key]
  /\ ack.kind = "Error"

\* C9: a receive issues exactly one nested call when its acknowledgement is
\* Result and none when it is Error; never more than one.
C9_OneNestedCall ==
  (ReceiveReturned /\ resp.ok)
    => /\ resp.out.ack.kind = "Result" => Len(resp.out.messages) = 1
       /\ resp.out.ack.kind = "Error" => Len(resp.out.messages) = 0
       /\ Len(resp.out.messages) <= 1

C9_Witness ==
  /\ ReceiveReturned
  /\ Msg.decodable
  /\ Msg.action = "Unlock"
  /\ resp.out.ack.kind = "Result"
  /\ Len(resp.out.messages) = 1

\* C10: the reply handler issues no nested call, for every continuation id
\* and every outcome: in the replies the host delivers, and in a reply for
\* any id and any outcome entered on any committed storage.
C10_ReplyTerminal ==
  /\ (resp.handler = "reply" /\ resp.ok) => resp.out.messages = <<>>
  /\ Idle =>
       \A id \in KnownReplyIds \cup {0}, result \in SubMsgResults :
         LET r == reply(Store, Reply(id, result)) IN
         r.ok => r.resp.messages = <<>>

C10_Witness ==
  /\ resp.handler = "reply"
  /\ resp.ok
  /\ ~resp.reply.result.ok
  /\ resp.reply.id = UNLOCK_TOKEN_ID
  /\ resp.out.messages = <<>>

\* the continuation ids whose reply loads the pending continuation slot
SlotReadingIds ==
  {RECEIVE_ID, SWAP_ID, JOIN_POOL_ID, EXIT_POOL_ID, LOCKUP_ID, LOCK_TOKEN_ID,
   CLAIM_TOKEN_ID}

\* the context the receive of the current packet saved in the slot
SavedContext ==
  ReplyArgs(cur.packet.dest.channel_id, LocalDenom(cur.packet), Msg.amount, Msg.sender)

\* C11: no invocation issues more than one nested call, a reply issues none,
\* and while a nested call whose reply reads the pending continuation slot is
\* outstanding the slot holds the context saved by the receive that issued it.
C11_OnePendingContinuation ==
  /\ (resp.handler # "none" /\ resp.ok) => Len(resp.out.messages) <= 1
  /\ (resp.handler = "reply" /\ resp.ok) => Len(resp.out.messages) = 0
  /\ (pending # NoSubMsg /\ pending.id \in SlotReadingIds) =>
       /\ Received /\ Parses
       /\ reply_args = SavedContext
  /\ (pending # NoSubMsg /\ ~Received) => reply_args = pre.reply_args

\* a swap is outstanding and its receive replaced an earlier context in the slot
C11_Witness ==
  /\ pending # NoSubMsg
  /\ pending.id = SWAP_ID
  /\ pre.reply_args.present
  /\ pre.reply_args # SavedContext
  /\ reply_args = SavedContext

\* the acknowledgement or timeout of the current transaction and its packet
AckReturned == resp.handler = "ack"
AckDecodes == cur.handler = "ack" /\ cur.acknowledgement.decodable
AckError == AckDecodes /\ cur.acknowledgement.kind = "Error"
AckResult == AckDecodes /\ cur.acknowledgement.kind = "Result"
SentKey == <<cur.packet.src.channel_id, Msg.denom>>
SettlementPayout ==
  reply_on_error(send_amount(Amount_from_parts(Msg.denom, Msg.amount), Msg.sender),
                 ACK_FAILURE_ID)

\* C12 (as amended): on an Error(message) acknowledgement of a decodable
\* packet, ibc_packet_ack debits the ledger of (source channel, denom) by the
\* sent amount, issues exactly one payout of that amount to the original
\* sender under ACK_FAILURE_ID with notify-on-failure-only and emits a
\* failure event carrying message; when the balance is smaller than the
\* amount it fails with InsufficientFunds and changes nothing.
C12_AckErrorDebitsAndPaysOut ==
  (AckReturned /\ AckError /\ Msg.decodable) =>
    IF pre.balance[SentKey] >= Msg.amount
      THEN /\ resp.ok
           /\ balance = [pre.balance EXCEPT ![SentKey] = @ - Msg.amount]
           /\ resp.out.messages = <<SettlementPayout>>
           /\ resp.out.attrs.success = "false"
           /\ resp.out.attrs.error = cur.acknowledgement.msg
      ELSE /\ ~resp.ok
           /\ resp.err = "InsufficientFunds"
           /\ Store = pre
           /\ pending = NoSubMsg

\* an Error acknowledgement of a sent amount has been settled out of escrow
C12_Witness ==
  /\ AckReturned /\ AckError /\ Msg.decodable
  /\ Msg.amount > 0
  /\ resp.ok
  /\ balance[SentKey] = pre.balance[SentKey] - Msg.amount
  /\ pending = SettlementPayout

\* C12 as stated: the Error acknowledgement credits the ledger by the sent
\* amount and issues the payout.
C12_AckErrorCredits ==
  (AckReturned /\ AckError /\ Msg.decodable) =>
    /\ resp.ok
    /\ balance = [pre.balance EXCEPT ![SentKey] = @ + Msg.amount]
    /\ resp.out.messages = <<SettlementPayout>>
    /\ resp.out.attrs.success = "false"
    /\ resp.out.attrs.error = cur.acknowledgement.msg

\* the reply of the payout issued by an acknowledgement or timeout settlement
Settling == cur.handler \in {"ack", "timeout"}
SettlementReplyFailure ==
  /\ Settling
  /\ resp.handler = "reply"
  /\ resp.reply.id = ACK_FAILURE_ID
  /\ ~resp.reply.result.ok

\* C13: when the settlement payout fails, the reply for ACK_FAILURE_ID
\* restores escrow for the settled (channel, denom, amount) and sets the
\* response data to Error(message).
C13_SettlementPayoutFailureRestores ==
  SettlementReplyFailure =>
    /\ resp.ok
    /\ balance = [prev.balance EXCEPT ![SentKey] = @ + Msg.amount]
    /\ resp.out.data = ack_fail(resp.reply.result.err)

TimeoutReturned == resp.handler = "timeout"
ErrorAcknowledgements == {a \in Acknowledgements : a.decodable /\ a.kind = "Error"}

\* C14: ibc_packet_timeout leaves the same storage, issues the same nested
\* call and returns the same success or failure as ibc_packet_ack does from
\* the same storage with an Error acknowledgement of the same packet; the
\* responses differ only in the error reason, which is "timeout".
C14_TimeoutAsAckError ==
  TimeoutReturned =>
    \A a \in ErrorAcknowledgements :
      LET r == ibc_packet_ack(pre, [acknowledgement |-> a, original_packet |-> cur.packet])
      IN /\ resp.ok = r.ok
         /\ resp.err = r.err
         /\ Store = r.st
         /\ pending \in {FirstMessage(r), NoSubMsg}
         /\ resp.ok =>
              /\ resp.out.messages = r.resp.messages
              /\ resp.out.attrs.error = "timeout"
              /\ r.resp.attrs.error = a.msg
              /\ resp.out = [r.resp EXCEPT !.attrs.error = "timeout"]

\* a timeout has taken a sent amount out of escrow and issued its payout
C14_Witness ==
  /\ TimeoutReturned
  /\ resp.ok
  /\ Msg.amount > 0
  /\ balance[SentKey] = pre.balance[SentKey] - Msg.amount
  /\ pending = SettlementPayout
  /\ resp.out.attrs.error = "timeout"

LockupKey == <<cur.packet.dest.channel_id, Msg.sender>>
CreateLockupReceived ==
  ReceiveReturned /\ Msg.decodable /\ Msg.action = "LockupAccount"
BoundBefore == pre.lockup[LockupKey] # NoAddr

\* C16 (as amended): once a binding for (channel, sender) is persisted, every
\* later CreateLockupAccount packet for that pair is acknowledged with Error
\* and issues no nested call; the error is OnlyLockupByChannel when the
\* packet carries a valid voucher denomination and zero amount.
C16_DuplicateCreateRejected ==
  (CreateLockupReceived /\ BoundBefore) =>
    /\ resp.ok
    /\ ack.kind = "Error"
    /\ resp.out.messages = <<>>
    /\ pending = NoSubMsg
    /\ lockup = pre.lockup
    /\ (Parses /\ Msg.amount = 0) => ack = ack_fail("OnlyLockupByChannel")

\* a second zero-value CreateLockupAccount met the binding of the first
C16_Witness ==
  /\ CreateLockupReceived /\ BoundBefore
  /\ Parses /\ Msg.amount = 0
  /\ lockup[LockupKey] \in Addrs
  /\ ack = ack_fail("OnlyLockupByChannel")
  /\ pending = NoSubMsg

\* C16 as stated: every later CreateLockupAccount packet for a bound pair is
\* acknowledged with Error(OnlyLockupByChannel) and issues no nested call.
C16_DuplicateAlwaysOnlyLockupByChannel ==
  (CreateLockupReceived /\ BoundBefore) =>
    /\ ack = ack_fail("OnlyLockupByChannel")
    /\ resp.out.messages = <<>>

\* C17: every key (channel, sender) holds at most one binding, and no step
\* of a receive, reply, acknowledgement or timeout changes or removes a
\* binding that is persisted.
C17_BindingStable ==
  /\ [](\A k \in LockupKeys : lockup[k] \in Addrs \cup {NoAddr})
  /\ [][\A k \in LockupKeys : lockup[k] # NoAddr => lockup'[k] = lockup[k]]_vars

\* both pairs are bound, to different addresses, and a later receive of a
\* CreateLockupAccount for one of them has run
C17_Witness ==
  /\ \A k \in LockupKeys : lockup[k] \in Addrs
  /\ \E k1, k2 \in LockupKeys : lockup[k1] # lockup[k2]
  /\ CreateLockupReceived
  /\ lockup = pre.lockup

\* a Lock, Claim or Unlock packet was received; it passes the checks that
\* come before the binding lookup when its voucher parses, the escrow covers
\* its amount and, for Claim and Unlock, the amount is zero
LockupActionReceived ==
  ReceiveReturned /\ Msg.decodable /\ Msg.action \in {"Lock", "Claim", "Unlock"}
ReachesLookup ==
  /\ Parses
  /\ pre.balance[Key] >= Msg.amount
  /\ Msg.action \in {"Claim", "Unlock"} => Msg.amount = 0
AddressedToBinding ==
  /\ ack = ack_success
  /\ Len(resp.out.messages) = 1
  /\ resp.out.messages[1].msg.type = "wasm_execute"
  /\ resp.out.messages[1].msg.contract_addr = pre.lockup[LockupKey]
  /\ resp.out.messages[1].msg.msg = Msg.action

\* C18 (as amended): a Lock, Claim or Unlock packet that reaches the binding
\* lookup is acknowledged with Error(LockupNotFound) and issues no nested
\* call when (destination channel, sender) has no binding, and issues its
\* nested call to exactly the bound address when it has one; a packet that
\* does not reach the lookup is acknowledged with Error and issues nothing.
C18_LockupLookup ==
  LockupActionReceived =>
    IF ~ReachesLookup
      THEN ack.kind = "Error" /\ resp.out.messages = <<>>
    ELSE IF ~BoundBefore
      THEN ack = ack_fail("LockupNotFound") /\ resp.out.messages = <<>>
    ELSE AddressedToBinding

\* a Lock of an escrowed amount found no binding for its sender
C18_Witness ==
  /\ LockupActionReceived /\ ReachesLookup
  /\ Msg.action = "Lock"
  /\ Msg.amount > 0
  /\ ~BoundBefore
  /\ ack = ack_fail("LockupNotFound")
  /\ pending = NoSubMsg

\* C18 as stated: without a binding the acknowledgement is
\* Error(LockupNotFound) and no nested call is issued; with one the nested
\* call goes to the bound address.
C18_LockupNotFoundOrAddressed ==
  LockupActionReceived =>
    IF ~BoundBefore
      THEN ack = ack_fail("LockupNotFound") /\ resp.out.messages = <<>>
      ELSE AddressedToBinding

\* a CreateLockupAccount, Claim or Unlock packet carrying value was received
PayingZeroValueAction ==
  /\ ReceiveReturned /\ Msg.decodable
  /\ Msg.action \in {"LockupAccount", "Claim", "Unlock"}
  /\ Msg.amount > 0

\* C19 (as amended): a CreateLockupAccount, Claim or Unlock packet with a
\* nonzero amount is acknowledged with Error and issues no nested call,
\* whether or not a binding exists; the error is NonPayable when the voucher
\* parses and the escrow covers the amount.
C19_NonPayable ==
  PayingZeroValueAction =>
    /\ ack.kind = "Error"
    /\ resp.out.messages = <<>>
    /\ lockup = pre.lockup
    /\ (Parses /\ pre.balance[Key] >= Msg.amount) => ack = ack_fail("NonPayable")

\* a Claim carrying value was refused although its sender has a binding
C19_Witness ==
  /\ PayingZeroValueAction
  /\ Msg.action = "Claim"
  /\ BoundBefore
  /\ ack = ack_fail("NonPayable")
  /\ pending = NoSubMsg

\* C19 as stated: the acknowledgement of such a packet is Error(NonPayable).
C19_AlwaysNonPayable ==
  PayingZeroValueAction =>
    /\ ack = ack_fail("NonPayable")
    /\ resp.out.messages = <<>>

\* the reply of the instantiate call of a received CreateLockupAccount
LockupReplyReturned == ReplyReturned /\ resp.reply.id = LOCKUP_ID
CreatedAddress == resp.reply.result.tx.contract_address
CarriesAddress == resp.reply.result.ok /\ resp.reply.result.tx.t = "instantiate"

\* C20: the reply of the lockup-create call persists the binding
\* (pending channel, pending sender) -> created address and sets the
\* acknowledgement to Result({contract address}) on a success carrying the
\* address; on a failure it creates no binding, leaves the ledger alone and
\* sets the acknowledgement to Error(message).
C20_LockupCreateReply ==
  LockupReplyReturned =>
    /\ CarriesAddress =>
         /\ resp.ok
         /\ prev.reply_args = SavedContext
         /\ lockup = [prev.lockup EXCEPT ![LockupKey] = CreatedAddress]
         /\ balance = prev.balance
         /\ resp.out.data = ack_success_with_body(LockupAck(CreatedAddress))
         /\ ack = resp.out.data
    /\ ~resp.reply.result.ok =>
         /\ resp.ok
         /\ lockup = prev.lockup
         /\ balance = prev.balance
         /\ balance = pre.balance
         /\ resp.out.data = ack_fail(resp.reply.result.err)
         /\ ack = resp.out.data

\* the created address was bound to a pair that had no binding, while the
\* other channel's binding for the sender is a different address
C20_Witness ==
  /\ LockupReplyReturned /\ CarriesAddress
  /\ prev.lockup[LockupKey] = NoAddr
  /\ lockup[LockupKey] = CreatedAddress
  /\ \E k \in LockupKeys : lockup[k] \in Addrs \ {CreatedAddress}
  /\ ack = ack_success_with_body(LockupAck(CreatedAddress))

\* the reply of the Lock call of a received packet
LockReplyReturned == ReplyReturned /\ resp.reply.id = LOCK_TOKEN_ID
CarriesPayload == resp.reply.result.ok /\ execute_response_data(resp.reply.result.tx).ok
Debited == [pre.balance EXCEPT ![Key] = @ - Msg.amount]

OnErrorIds == {UNLOCK_TOKEN_ID, RECEIVE_ID, ACK_FAILURE_ID}
OnErrorCallOutstanding == pending # NoSubMsg /\ pending.reply_on = "error"

\* C22: whenever a notify-on-failure-only call is outstanding, its id is
\* unlock-token, plain-receive or failure-settlement-payout, and a success
\* reply for it returns Ok, writes nothing and sets no data: the
\* acknowledgement already returned stays.
C22_SuccessReplyOnErrorPolicy ==
  /\ OnErrorCallOutstanding =>
       /\ pending.id \in OnErrorIds
       /\ \A tx \in Txs :
            LET r == reply(Store, Reply(pending.id, SubMsgOk(tx))) IN
            /\ r.ok
            /\ r.st = Store
            /\ r.resp.data = NoData
            /\ r.resp.messages = <<>>
  /\ (resp.handler = "receive" /\ resp.ok /\ pending = NoSubMsg) => ack = resp.out.ack

\* an unlock call is outstanding after a receive that changed the slot and
\* acknowledged with the success marker
C22_Witness ==
  /\ OnErrorCallOutstanding
  /\ pending.id = UNLOCK_TOKEN_ID
  /\ ack = ack_success
  /\ reply_args = SavedContext
  /\ pre.reply_args # reply_args

\* a reply with an id outside the nine continuation ids has returned
UnknownReplyReturned == resp.handler = "reply" /\ resp.reply.id \notin KnownReplyIds

\* C23: a reply whose id is not one of the nine known ids fails with
\* UnknownReplyId whatever the outcome of the nested call, returns no data
\* and leaves the storage as it was.
C23_UnknownReplyId ==
  /\ UnknownReplyReturned =>
       /\ ~resp.ok
       /\ resp.err = "UnknownReplyId"
       /\ resp.out = NoResp
       /\ ack = NoData
       /\ Store = pre
  /\ Idle =>
       \A id \in UnknownReplyIds, result \in SubMsgResults :
         LET r == reply(Store, Reply(id, result)) IN
         ~r.ok /\ r.err = "UnknownReplyId" /\ r.st = Store /\ r.resp = NoResp

\* a failure reply with an unknown id was refused while escrow and a saved
\* context are in the storage
C23_Witness ==
  /\ UnknownReplyReturned
  /\ ~resp.reply.result.ok
  /\ resp.err = "UnknownReplyId"
  /\ reply_args.present
  /\ \E k \in LedgerKeys : balance[k] > 0

\* a step of the channel handshake has returned
HandshakeReturned == resp.handler \in {"channel_open", "channel_connect"}

\* the handshake message carries the transfer protocol version on both ends
\* (the counterparty's when supplied) and the required ordering
VersionAndOrderMatch ==
  /\ cur.channel_msg.channel.version = "ics20-1"
  /\ cur.channel_msg.counterparty_version.some =>
       cur.channel_msg.counterparty_version.version = "ics20-1"
  /\ cur.channel_msg.channel.order = "Unordered"

\* C24: open and connect succeed exactly when the channel version is
\* "ics20-1", the counterparty version (when supplied) is too, and the
\* ordering is Unordered; every other handshake is rejected and leaves the
\* channel registry (and the rest of the storage) as it was.
C24_HandshakeVersionAndOrder ==
  HandshakeReturned =>
    /\ resp.ok <=> VersionAndOrderMatch
    /\ ~resp.ok =>
         /\ resp.err \in {"InvalidIbcVersion", "OnlyOrderedChannel"}
         /\ channel_info = pre.channel_info
         /\ Store = pre
    /\ (resp.ok /\ resp.handler = "channel_open") => Store = pre

\* a connect was rejected only for the counterparty's version while the
\* registry already holds a record
C24_Witness ==
  /\ resp.handler = "channel_connect"
  /\ ~resp.ok
  /\ cur.channel_msg.channel.version = ICS20_VERSION
  /\ cur.channel_msg.channel.order = ICS20_ORDERING
  /\ cur.channel_msg.counterparty_version = SomeVersion("ics20-2")
  /\ \E c \in Channels : channel_info[c].present

\* C25: a channel record is written once, at the first successful connect
\* for its id, and never changes afterwards, whatever open, connect, close,
\* receive, reply, acknowledgement or timeout is invoked: once a record is
\* present for a channel id, every step leaves it as it is.
C25_ChannelRecordImmutable ==
  [][\A c \in Channels :
       channel_info[c].present => channel_info'[c] = channel_info[c]]_vars

\* a step of the channel closing has returned
CloseReturned == resp.handler = "channel_close"

\* C26: closing accepts a close confirmation initiated by the remote end and
\* rejects every close request initiated locally with CannotClose; in both
\* cases the ledger, the registry, the bindings and the pending slot are as
\* they were and no nested call is issued.
C26_ChannelClose ==
  CloseReturned =>
    /\ cur.channel_msg.kind = "CloseConfirm" =>
         resp.ok /\ resp.out.messages = <<>> /\ resp.out.data = NoData
    /\ cur.channel_msg.kind = "CloseInit" => ~resp.ok /\ resp.err = "CannotClose"
    /\ balance = pre.balance
    /\ channel_info = pre.channel_info
    /\ lockup = pre.lockup
    /\ reply_args = pre.reply_args
    /\ pending = NoSubMsg

\* a local close request was refused while the channel is registered, holds
\* escrow, has a binding and a saved context
C26_Witness ==
  /\ CloseReturned
  /\ cur.channel_msg.kind = "CloseInit"
  /\ resp.err = "CannotClose"
  /\ channel_info[cur.channel_msg.channel.endpoint.channel_id].present
  /\ \E k \in LedgerKeys : k[1] = cur.channel_msg.channel.endpoint.channel_id /\ balance[k] > 0
  /\ \E k \in LockupKeys : lockup[k] # NoAddr
  /\ reply_args.present

\* the number of '/'-separated parts of the received denomination
Parts == Len(Msg.denom)

\* the receive ended in the Error acknowledgement of err, left the ledger as
\* it was and issued no nested call
RejectedWith(err) ==
  /\ resp.ok
  /\ resp.out.ack = ack_fail(err)
  /\ ack = ack_fail(err)
  /\ resp.out.messages = <<>>
  /\ pending = NoSubMsg
  /\ balance = pre.balance

\* C27 as stated: a denomination is accepted only with exactly three
\* '/'-separated parts; with fewer or with more the receive ends in
\* Error(NoForeignTokens), no ledger change and no nested call.
C27_ExactlyThreeParts ==
  (ReceiveReturned /\ Msg.decodable /\ Parts # 3) => RejectedWith("NoForeignTokens")

\* C27: the parser splits on '/' into at most three parts, the third keeping
\* the rest. A denomination with fewer than three parts ends the receive in
\* Error(NoForeignTokens), no ledger change and no nested call; one with
\* three parts or more is never refused for its number of parts, and with
\* the source port and channel as its first two parts it resolves to the
\* local denomination made of all the remaining parts.
C27_AtLeastThreeParts ==
  (ReceiveReturned /\ Msg.decodable) =>
    /\ Parts < 3 => RejectedWith("NoForeignTokens")
    /\ Parts >= 3 =>
         /\ resp.out.ack # ack_fail("NoForeignTokens")
         /\ (Msg.denom[1] = cur.packet.src.port_id
               /\ Msg.denom[2] = cur.packet.src.channel_id) =>
              /\ Parses
              /\ LocalDenom(cur.packet) = SubSeq(Msg.denom, 3, Parts)
              /\ resp.out.messages # <<>> =>
                   /\ reply_args.denom = SubSeq(Msg.denom, 3, Parts)
                   /\ balance[Key] = pre.balance[Key] - Msg.amount

\* a denomination of two parts was refused while escrow is held
C27_Witness ==
  /\ ReceiveReturned
  /\ Msg.decodable
  /\ Parts = 2
  /\ RejectedWith("NoForeignTokens")
  /\ \E k \in LedgerKeys : balance[k] > 0

\* the received denomination has a prefix to compare with the source endpoint
HasPrefix == ReceiveReturned /\ Msg.decodable /\ Parts >= 3
PortMatches == Msg.denom[1] = cur.packet.src.port_id
ChannelMatches == Msg.denom[2] = cur.packet.src.channel_id

\* C28: a denomination whose first part is not the source port is refused
\* with FromOtherPort; otherwise one whose second part is not the source
\* channel is refused with FromOtherChannel; both before any ledger access:
\* Error acknowledgement, storage untouched, no nested call. Only when both
\* match is a balance debited, under the remainder as local denomination.
C28_VoucherPrefix ==
  /\ HasPrefix =>
       /\ ~PortMatches => RejectedWith("FromOtherPort") /\ Store = pre
       /\ (PortMatches /\ ~ChannelMatches) =>
            RejectedWith("FromOtherChannel") /\ Store = pre
       /\ (PortMatches /\ ChannelMatches) =>
            /\ resp.out.ack \notin {ack_fail("FromOtherPort"), ack_fail("FromOtherChannel")}
            /\ Key[2] = SubSeq(Msg.denom, 3, Parts)
            /\ \A k \in LedgerKeys : k # Key => balance[k] = pre.balance[k]
  /\ (ReceiveReturned /\ balance # pre.balance) =>
       /\ HasPrefix /\ PortMatches /\ ChannelMatches
       /\ balance[Key] = pre.balance[Key] - Msg.amount

\* a denomination naming another port and another channel was refused for
\* its port while the destination channel holds escrow of its remainder
C28_Witness ==
  /\ HasPrefix
  /\ ~PortMatches
  /\ ~ChannelMatches
  /\ RejectedWith("FromOtherPort")
  /\ balance[<<cur.packet.dest.channel_id, SubSeq(Msg.denom, 3, Parts)>>] >= Msg.amount

\* the per-action table of sections 4.5 and 4.6: continuation id and notify
\* policy of the nested call of each dispatch branch
ContinuationOf(action) ==
  CASE action = "Swap" -> [id |-> SWAP_ID, reply_on |-> "always"]
    [] action = "JoinPool" -> [id |-> JOIN_POOL_ID, reply_on |-> "always"]
    [] action = "ExitPool" -> [id |-> EXIT_POOL_ID, reply_on |-> "always"]
    [] action = "LockupAccount" -> [id |-> LOCKUP_ID, reply_on |-> "always"]
    [] action = "Lock" -> [id |-> LOCK_TOKEN_ID, reply_on |-> "always"]
    [] action = "Claim" -> [id |-> CLAIM_TOKEN_ID, reply_on |-> "always"]
    [] action = "Unlock" -> [id |-> UNLOCK_TOKEN_ID, reply_on |-> "error"]
    [] action = "None" -> [id |-> RECEIVE_ID, reply_on |-> "error"]
    [] action = "Settlement" -> [id |-> ACK_FAILURE_ID, reply_on |-> "error"]

\* the reply handler of each action kind
HandlerOf(action, st, rep) ==
  CASE action \in {"Swap", "JoinPool", "ExitPool"} -> reply_gamm_result(st, rep)
    [] action = "LockupAccount" -> reply_lockup_account(st, rep)
    [] action = "Lock" -> reply_ack_from_data(st, rep)
    [] action = "Claim" -> reply_claim_result(st, rep)
    [] action = "Unlock" -> reply_ack_on_error(st, rep)
    [] action = "None" -> reply_receive(st, rep)
    [] action = "Settlement" -> reply_ack_on_error(st, rep)

\* the dispatch branch of the invocation that issued the outstanding call
IssuingBranch == IF Settling THEN "Settlement" ELSE Msg.action
CallIssued ==
  /\ resp.handler \in {"receive", "ack", "timeout"}
  /\ resp.ok
  /\ resp.out.messages # <<>>

\* C29: the nested call of every dispatch branch carries the continuation
\* id and the notify policy the per-action table gives for that branch
\* (unlock, plain receive and settlement payout on failure only, the others
\* always), and reply routes that id to the handler of the same kind.
C29_ContinuationTable ==
  CallIssued =>
    /\ Len(resp.out.messages) = 1
    /\ resp.out.messages[1].id = ContinuationOf(IssuingBranch).id
    /\ resp.out.messages[1].reply_on = ContinuationOf(IssuingBranch).reply_on
    /\ pending # NoSubMsg =>
         /\ pending = resp.out.messages[1]
         /\ \A result \in SubMsgResults :
              reply(Store, Reply(pending.id, result))
                = HandlerOf(IssuingBranch, Store, Reply(pending.id, result))

\* an unlock call is outstanding with the failure-only policy
C29_Witness ==
  /\ CallIssued
  /\ Received
  /\ Msg.action = "Unlock"
  /\ pending.id = UNLOCK_TOKEN_ID
  /\ pending.reply_on = "error"

\* the context {channel, denom, amount, sender} of the invocation that issued
\* the outstanding call: of the received packet, or of the sent packet whose
\* failure is being settled
IssuingContext ==
  IF Settling
    THEN ReplyArgs(cur.packet.src.channel_id, Msg.denom, Msg.amount, Msg.sender)
    ELSE SavedContext

\* C30: every handler that issues a nested call with a continuation (the
\* receive branches and the settlement payout of an acknowledgement error or
\* a timeout) has saved the pending continuation of that call before, so
\* whenever a reply can be delivered the slot holds the context of the
\* issuing invocation, never that of an earlier packet.
C30_ContextSavedBeforeCall ==
  pending # NoSubMsg => reply_args = IssuingContext

\* a reply was run while no continuation was recorded
RepliedWithoutContinuation ==
  /\ resp.handler = "reply"
  /\ cur.handler = "reply"
  /\ resp.reply.id \in KnownReplyIds
  /\ ~pre.reply_args.present

\* the replies the claim lists as needing the pending continuation
NeedsContinuationAsStated ==
  \/ /\ ~resp.reply.result.ok
     /\ resp.reply.id \in {RECEIVE_ID, SWAP_ID, JOIN_POOL_ID, EXIT_POOL_ID,
                            LOCK_TOKEN_ID, CLAIM_TOKEN_ID}
  \/ /\ resp.reply.result.ok
     /\ resp.reply.id \in {SWAP_ID, JOIN_POOL_ID, EXIT_POOL_ID, CLAIM_TOKEN_ID, LOCKUP_ID}

\* the same list, a success reply for lockup-create counting only when its
\* response decodes to the created address
NeedsContinuation ==
  /\ NeedsContinuationAsStated
  /\ (resp.reply.result.ok /\ resp.reply.id = LOCKUP_ID) =>
       resp.reply.result.tx.t = "instantiate"

Aborted ==
  /\ ~resp.ok
  /\ resp.out = NoResp
  /\ ack = NoData
  /\ balance = pre.balance
  /\ lockup = pre.lockup

\* C31 as stated: with the slot empty, every failure reply for
\* plain-receive, swap, join-pool, exit-pool, lock-token or claim-token and
\* every success reply for swap, join-pool, exit-pool, claim-token or
\* lockup-create aborts, and no balance and no binding changes.
C31_EmptySlotAbortsAsStated ==
  (RepliedWithoutContinuation /\ NeedsContinuationAsStated) => Aborted

\* C31: with the slot empty, every failure reply for plain-receive, swap,
\* join-pool, exit-pool, lock-token or claim-token and every success reply
\* for swap, join-pool, exit-pool or claim-token, or for lockup-create when
\* the response decodes to the created address, aborts with a host-level
\* error, and no balance and no binding changes.
C31_EmptySlotAborts ==
  /\ (RepliedWithoutContinuation /\ NeedsContinuation) => Aborted
  /\ (RepliedWithoutContinuation /\ resp.reply.id \notin {CLAIM_TOKEN_ID, LOCK_TOKEN_ID}
        /\ ~resp.ok) => resp.err = "NotFound"
  /\ RepliedWithoutContinuation => (balance = pre.balance /\ lockup = pre.lockup)

\* a swap reply with a decodable result aborted on the empty slot while
\* escrow is held
C31_Witness ==
  /\ RepliedWithoutContinuation
  /\ resp.reply.id = SWAP_ID
  /\ resp.reply.result.ok
  /\ resp.reply.result.tx.t = "gamm"
  /\ resp.err = "NotFound"
  /\ \E k \in LedgerKeys : balance[k] > 0

\* the reply of a swap, join-pool or exit-pool call reported success with an
\* output that does not decode into a {denom, amount} result
UndecodedPoolReply ==
  /\ ReplySuccess
  /\ resp.reply.id \in GammIds
  /\ resp.reply.result.tx.t # "gamm"

\* C32: for swap, join-pool and exit-pool, a success reply whose output does
\* not decode is handled like a failure of the nested call: the debit of the
\* receive is restored, nothing is credited for an output, the reply returns
\* Ok and the acknowledgement becomes Error(message).
C32_UndecodedResultRestores ==
  UndecodedPoolReply =>
    /\ resp.ok
    /\ balance = [prev.balance EXCEPT ![Key] = @ + Msg.amount]
    /\ balance = pre.balance
    /\ lockup = prev.lockup
    /\ resp.out.data.kind = "Error"
    /\ resp.out.data = ack_fail(parse_gamm_result(resp.reply.result.tx).err)
    /\ ack = resp.out.data
    /\ resp.out.messages = <<>>
    /\ \A e \in ErrorStrings :
         LET failed == reply(prev, Reply(resp.reply.id, SubMsgErr(e))) IN
         failed.ok /\ failed.st = Store /\ failed.resp.data.kind = "Error"

\* an exit-pool call answered success with an undecodable output and the
\* debit of the pool shares was restored
C32_Witness ==
  /\ UndecodedPoolReply
  /\ resp.reply.id = EXIT_POOL_ID
  /\ Msg.amount > 0
  /\ prev.balance[Key] = pre.balance[Key] - Msg.amount
  /\ balance[Key] = pre.balance[Key]
  /\ ack.kind = "Error"

\* the reply of a lock or claim call reported success without response data
\* (none at all, or an execute response whose inner data is absent)
DatalessLockupReply ==
  /\ ReplySuccess
  /\ resp.reply.id \in {LOCK_TOKEN_ID, CLAIM_TOKEN_ID}
  /\ resp.reply.result.tx.t \in {"none", "empty"}

OtherChannels(b, channel) == [k \in {l \in LedgerKeys : l[1] # channel} |-> b[k]]

\* C34: while a packet received on channel C is processed (its receive and
\* the reply that resolves its nested call), no balance keyed by another
\* channel changes: the debit, the restoration and the output credit are
\* applied to entries of C, and the saved context names C.
C34_OnlyOwnChannel ==
  Received =>
    LET C == cur.packet.dest.channel_id IN
    /\ OtherChannels(balance, C) = OtherChannels(pre.balance, C)
    /\ OtherChannels(prev.balance, C) = OtherChannels(pre.balance, C)
    /\ pending # NoSubMsg => reply_args.channel = C
    /\ (ReplyReturned /\ resp.ok /\ balance # prev.balance) => prev.reply_args.channel = C

\* the output of a pool call was credited to the packet's channel while the
\* other channel holds escrow
C34_Witness ==
  /\ ReplySuccess
  /\ resp.ok
  /\ resp.reply.id \in GammIds
  /\ resp.reply.result.tx.t = "gamm"
  /\ resp.reply.result.tx.amount > 0
  /\ balance # prev.balance
  /\ \E k \in LedgerKeys : k[1] # cur.packet.dest.channel_id /\ balance[k] > 0

\* an acknowledgement error or a timeout was handled for a sent packet whose
\* amount exceeds the balance of (source channel, denom)
SettlementExceedsBalance ==
  /\ (AckReturned /\ AckError) \/ TimeoutReturned
  /\ Msg.decodable
  /\ Msg.amount > pre.balance[SentKey]

\* C35: an acknowledgement error or a timeout for a packet whose amount
\* exceeds the stored balance of (source channel, denom) returns the
\* host-level error InsufficientFunds, not a successful response; no payout
\* is issued and every balance stays as it was.
C35_SettlementInsufficientFunds ==
  SettlementExceedsBalance =>
    /\ ~resp.ok
    /\ resp.err = "InsufficientFunds"
    /\ resp.out = NoResp
    /\ pending = NoSubMsg
    /\ balance = pre.balance

\* a timeout for more than the escrow of its key was refused while the same
\* denomination is in escrow on the other channel
C35_Witness ==
  /\ TimeoutReturned
  /\ SettlementExceedsBalance
  /\ \E c \in Channels : c # cur.packet.src.channel_id /\ balance[<<c, Msg.denom>>] >= Msg.amount
  /\ resp.err = "InsufficientFunds"
  /\ balance = pre.balance

====
